---- MODULE Spec2Model ----
(***************************************************************************)
(* Model of testhelpers/xmlhelpers.py: the XML comparison helper           *)
(* xml_equal / element_is_equal.                                           *)
(*                                                                         *)
(* Strings are sequences of code points, so that strip() and the ordering  *)
(* used by cmp() are computed as Python computes them.  A DOM node is a    *)
(* record; a list of nodes held by a local variable is a sequence of      *)
(* references (positions) into the parent's childNodes list, so that the   *)
(* effect of the call on the input trees is part of what is computed.      *)
(***************************************************************************)
EXTENDS Integers, Sequences, FiniteSets, TLC

VARIABLES da, db, ignore_whitespace, pc, result

vars == <<da, db, ignore_whitespace, pc, result>>

----------------------------------------------------------------------------
(* Bounds of the model *)

\* longest childNodes list of a document element
MaxChildren == 3

----------------------------------------------------------------------------
(* Code points *)

SP == 32
TAB == 9
CR == 13
LF == 10

\* WHITESPACES = ' \t\r\n'
WHITESPACES == {SP, TAB, CR, LF}

\* xml.dom.Node.ELEMENT_NODE and TEXT_NODE
ELEMENT_NODE == 1
TEXT_NODE == 3

----------------------------------------------------------------------------
(* Python built-ins used by the module *)

RECURSIVE lstrip(_)
lstrip(s) ==
    IF s # <<>> /\ Head(s) \in WHITESPACES THEN lstrip(Tail(s)) ELSE s

RECURSIVE rstrip(_)
rstrip(s) ==
    IF s # <<>> /\ s[Len(s)] \in WHITESPACES
    THEN rstrip(SubSeq(s, 1, Len(s) - 1))
    ELSE s

\* str.strip(WHITESPACES)
strip(s) == rstrip(lstrip(s))

\* cmp() of two strings: code point by code point, a prefix sorts first
RECURSIVE cmp(_, _)
cmp(x, y) ==
    IF x = <<>> THEN (IF y = <<>> THEN 0 ELSE -1)
    ELSE IF y = <<>> THEN 1
    ELSE IF Head(x) < Head(y) THEN -1
    ELSE IF Head(x) > Head(y) THEN 1
    ELSE cmp(Tail(x), Tail(y))

\* comparison of two (key, value) tuples, as sorted() compares them
cmp_items(p, q) ==
    IF cmp(p[1], q[1]) # 0 THEN cmp(p[1], q[1]) ELSE cmp(p[2], q[2])

----------------------------------------------------------------------------
(* xmlhelpers.py *)

is_whitespace_node(element) ==
    element.nodeType = TEXT_NODE /\ strip(element.data) = <<>>

\* cmp_nodes with the last line the other way round: elements sort first
cmp_nodes_elements_first(a, b) ==
    IF a.nodeType = b.nodeType
    THEN IF a.nodeType = TEXT_NODE
         THEN cmp(a.data, b.data)
         ELSE cmp(a.tagName, b.tagName)
    ELSE IF a.nodeType = ELEMENT_NODE THEN -1 ELSE 1

cmp_nodes(a, b) ==
    IF a.nodeType = b.nodeType
    THEN IF a.nodeType = TEXT_NODE
         THEN cmp(a.data, b.data)
         ELSE cmp(a.tagName, b.tagName)
    ELSE IF a.nodeType = ELEMENT_NODE THEN 1 ELSE -1

\* sorted() of a list of items, as the stable sort of its positions:
\* position i is inserted after every position whose item is not greater
RECURSIVE InsertItemRef(_, _, _)
InsertItemRef(l, s, i) ==
    IF s = <<>> THEN <<i>>
    ELSE IF cmp_items(l[Head(s)], l[i]) > 0 THEN <<i>> \o s
    ELSE <<Head(s)>> \o InsertItemRef(l, Tail(s), i)

RECURSIVE SortItemRefs(_, _)
SortItemRefs(l, n) ==
    IF n = 0 THEN <<>> ELSE InsertItemRef(l, SortItemRefs(l, n - 1), n)

\* a.attributes.items() without the sorted()
unsorted_items(items) == items

\* sorted(a.attributes.items()): a new list of the items, sorted
sorted_items(items) ==
    LET refs == SortItemRefs(items, Len(items))
    IN  [i \in 1..Len(items) |-> items[refs[i]]]

\* a comparison that only looks for items of a that b lacks
attributes_missing(a_items, b_items) ==
    \E i \in 1..Len(a_items) :
        a_items[i] \notin {b_items[j] : j \in 1..Len(b_items)}

\* sorted(a.attributes.items()) != sorted(b.attributes.items())
attributes_differ(a_items, b_items) ==
    sorted_items(a_items) # sorted_items(b_items)

\* sorted(cmp=cmp_nodes) of a list of nodes, as the stable sort of its
\* positions: position i is inserted after every position whose node is not
\* greater
RECURSIVE InsertNodeRef(_, _, _)
InsertNodeRef(l, s, i) ==
    IF s = <<>> THEN <<i>>
    ELSE IF cmp_nodes(l[Head(s)], l[i]) > 0 THEN <<i>> \o s
    ELSE <<Head(s)>> \o InsertNodeRef(l, Tail(s), i)

RECURSIVE SortNodeRefs(_, _)
SortNodeRefs(l, n) ==
    IF n = 0 THEN <<>> ELSE InsertNodeRef(l, SortNodeRefs(l, n - 1), n)

\* list(a.childNodes): the copy without the sort
unsorted_nodes(childNodes) ==
    [list |-> childNodes, refs |-> [i \in 1..Len(childNodes) |-> i]]

\* a.childNodes.sort(cmp=cmp_nodes): the list of the node itself is sorted
sort_nodes_in_place(childNodes) ==
    LET refs == SortNodeRefs(childNodes, Len(childNodes))
    IN  [list |-> [i \in 1..Len(childNodes) |-> childNodes[refs[i]]],
         refs |-> [i \in 1..Len(childNodes) |-> i]]

\* sorted(a.childNodes, cmp=cmp_nodes): childNodes is left as it is and the
\* new list refers to its nodes in sorted order
sorted_nodes(childNodes) ==
    [list |-> childNodes, refs |-> SortNodeRefs(childNodes, Len(childNodes))]

\* [n for n in a_childNodes if not is_whitespace_node(n)]
RECURSIVE drop_whitespace_nodes(_, _)
drop_whitespace_nodes(list, refs) ==
    IF refs = <<>> THEN <<>>
    ELSE IF is_whitespace_node(list[Head(refs)])
         THEN drop_whitespace_nodes(list, Tail(refs))
         ELSE <<Head(refs)>> \o drop_whitespace_nodes(list, Tail(refs))

\* the local list the loop walks
comparison_list(sortedNodes, w) ==
    IF w THEN drop_whitespace_nodes(sortedNodes.list, sortedNodes.refs)
    ELSE sortedNodes.refs

\* left, right of a pair of text nodes
text_value(data, w) == IF w THEN strip(data) ELSE data

\* if left and right
both_non_empty(left, right) ==
    left # <<>> /\ right # <<>>

\* if left and right and left != right
text_differs(left, right) ==
    left # <<>> /\ right # <<>> /\ left # right

\* What a call leaves behind: the value returned and the two arguments as
\* they are after the call.
Ret(v, a, b) == [ret |-> v, a |-> a, b |-> b]

RECURSIVE element_is_equal(_, _, _)
RECURSIVE compare_children(_, _, _, _, _, _)

\* for ac, bc in zip(a_childNodes, b_childNodes), from pair i on; al and bl
\* are the childNodes lists of a and b, ar and br the local lists
compare_children(al, bl, ar, br, i, w) ==
    IF i > Len(ar) \/ i > Len(br) THEN Ret(TRUE, al, bl)
    ELSE
      LET ac == al[ar[i]]
          bc == bl[br[i]]
      IN  IF ac.nodeType # bc.nodeType THEN Ret(FALSE, al, bl)
          ELSE IF ac.nodeType = TEXT_NODE
          THEN IF text_differs(text_value(ac.data, w), text_value(bc.data, w))
               THEN Ret(FALSE, al, bl)
               ELSE Ret(TRUE, al, bl)
          ELSE
            LET r == element_is_equal(ac, bc, w)
                al2 == [al EXCEPT ![ar[i]] = r.a]
                bl2 == [bl EXCEPT ![br[i]] = r.b]
            IN  IF ~r.ret THEN Ret(FALSE, al2, bl2)
                ELSE compare_children(al2, bl2, ar, br, i + 1, w)

element_is_equal(a, b, w) ==
    IF a.tagName # b.tagName THEN Ret(FALSE, a, b)
    ELSE IF attributes_differ(a.attributes, b.attributes)
    THEN Ret(FALSE, a, b)
    ELSE
      LET sa == sorted_nodes(a.childNodes)
          sb == sorted_nodes(b.childNodes)
          a_childNodes == comparison_list(sa, w)
          b_childNodes == comparison_list(sb, w)
      IN  IF Len(a_childNodes) # Len(b_childNodes)
          THEN Ret(FALSE, [a EXCEPT !.childNodes = sa.list],
                          [b EXCEPT !.childNodes = sb.list])
          ELSE
            LET r == compare_children(sa.list, sb.list,
                                      a_childNodes, b_childNodes, 1, w)
            IN  Ret(r.ret, [a EXCEPT !.childNodes = r.a],
                           [b EXCEPT !.childNodes = r.b])

----------------------------------------------------------------------------
(* The documents minidom.parseString can hand over *)

Text(d) == [nodeType |-> TEXT_NODE, data |-> d]

Element(t, at, ch) ==
    [nodeType |-> ELEMENT_NODE, tagName |-> t, attributes |-> at,
     childNodes |-> ch]

\* tag names "a", "b", "r"
TagA == <<97>>
TagB == <<98>>
TagR == <<114>>

\* the parser merges adjacent character data into one text node
NoAdjacentText(ch) ==
    \A i \in 1..(Len(ch) - 1) :
        ~(ch[i].nodeType = TEXT_NODE /\ ch[i + 1].nodeType = TEXT_NODE)

\* the child lists of at most MaxChildren nodes drawn from the set nodes
ChildLists(nodes) ==
    {ch \in UNION {[1..n -> nodes] : n \in 0..MaxChildren} :
        NoAdjacentText(ch)}

\* documents <r>...</r> rich in text: the character data "x", "y", " y", " ",
\* "x\n", "\t\r" around the child element <a><b/>x</a>
TextDocuments ==
    {Element(TagR, <<>>, ch) :
        ch \in ChildLists(
            { Text(<<120>>), Text(<<121>>), Text(<<SP, 121>>), Text(<<SP>>),
              Text(<<120, LF>>), Text(<<TAB, CR>>),
              Element(TagA, <<>>,
                      <<Element(TagB, <<>>, <<>>), Text(<<120>>)>>) })}

\* documents <r>...</r> rich in elements: the child elements <a>x</a>,
\* <a>y</a>, <b/> and the character data "x"
ElementDocuments ==
    {Element(TagR, <<>>, ch) :
        ch \in ChildLists(
            { Text(<<120>>),
              Element(TagA, <<>>, <<Text(<<120>>)>>),
              Element(TagA, <<>>, <<Text(<<121>>)>>),
              Element(TagB, <<>>, <<>>) })}

\* attribute names "p", "q" and attribute values "2", "3"
AttrKeys == {<<112>>, <<113>>}
AttrValues == {<<50>>, <<51>>}

\* attributes.items(): one (key, value) pair for each key the element has,
\* in the order the mapping happens to list them
AttrLists ==
    {<<>>}
    \cup {<< <<k, v>> >> : k \in AttrKeys, v \in AttrValues}
    \cup {<< <<k1, v1>>, <<k2, v2>> >> :
            <<k1, k2, v1, v2>> \in
              {t \in AttrKeys \X AttrKeys \X AttrValues \X AttrValues :
                  t[1] # t[2]}}

\* the attributes of a child element: none, p="2", p="3", and p="2" q="3"
\* listed either way
ChildAttrLists ==
    {at \in AttrLists :
        \A i \in 1..Len(at) :
            \/ at[i] = << <<112>>, <<50>> >>
            \/ at[i] = << <<113>>, <<51>> >>
            \/ Len(at) = 1 /\ at[i] = << <<112>>, <<51>> >>}

\* documents with attributes on the document element and on its child:
\* <r .../>, <r ...>x</r>, <r ...><a .../></r>, and the same under tag "a"
AttrDocuments ==
    {Element(t, at, ch) :
        t \in {TagR, TagA}, at \in AttrLists,
        ch \in {<<>>, <<Text(<<120>>)>>}
               \cup {<<Element(TagA, at2, <<>>)>> : at2 \in ChildAttrLists}}

----------------------------------------------------------------------------
(* The program *)

Init ==
    /\ \/ da \in TextDocuments /\ db \in TextDocuments
       \/ da \in ElementDocuments /\ db \in ElementDocuments
       \/ da \in AttrDocuments /\ db \in AttrDocuments
    /\ ignore_whitespace \in BOOLEAN
    /\ pc = "parsed"
    /\ result = "None"

\* xml_equal, after both strings are parsed: the call of element_is_equal on
\* the two document elements
xml_equal ==
    /\ pc = "parsed"
    /\ LET r == element_is_equal(da, db, ignore_whitespace)
       IN  /\ result' = r.ret
           /\ da' = r.a
           /\ db' = r.b
    /\ pc' = "done"
    /\ UNCHANGED ignore_whitespace

Next == xml_equal

Spec == Init /\ [][Next]_vars

----------------------------------------------------------------------------
(* Vocabulary of the properties *)

Done == pc = "done"

Range(s) == {s[i] : i \in 1..Len(s)}

\* the attributes of an element as a set of (key, value) pairs
AttrSet(e) == Range(e.attributes)

SameTagAndAttributes(a, b) ==
    a.tagName = b.tagName /\ AttrSet(a) = AttrSet(b)

\* t lists the members of s in some other (or the same) order
IsPermutationOf(s, t) ==
    /\ Len(s) = Len(t)
    /\ \E p \in Permutations(1..Len(s)) : \A i \in 1..Len(s) : t[i] = s[p[i]]

\* the children of e in document order, without the whitespace-only text
\* children when w
DocOrderList(e, w) ==
    SelectSeq(e.childNodes, LAMBDA n : ~(w /\ is_whitespace_node(n)))

\* the nodes of the list the loop of element_is_equal walks, in its order
SortedList(e, w) ==
    LET s == sorted_nodes(e.childNodes)
        r == comparison_list(s, w)
    IN  [i \in 1..Len(r) |-> s.list[r[i]]]

\* the k-th nodes of two lists differ in node kind or in tag name
KindOrTagDiffers(la, lb, k) ==
    \/ la[k].nodeType # lb[k].nodeType
    \/ /\ la[k].nodeType = ELEMENT_NODE
       /\ la[k].tagName # lb[k].tagName

\* the two values of a pair of text nodes are both non-empty and different
BothNonEmptyAndDifferent(l, r) == l # <<>> /\ r # <<>> /\ l # r

TextValue(d, w) == IF w THEN strip(d) ELSE d

\* every element of the subtree of e, e included
RECURSIVE ElementsOf(_)
ElementsOf(e) ==
    {e} \cup UNION {ElementsOf(e.childNodes[i]) :
                      i \in {j \in 1..Len(e.childNodes) :
                               e.childNodes[j].nodeType = ELEMENT_NODE}}

----------------------------------------------------------------------------
(* C1 *)

\* every positional pair of the two comparison lists matches, at every depth
RECURSIVE EveryPairMatches(_, _, _)
EveryPairMatches(a, b, w) ==
    /\ SameTagAndAttributes(a, b)
    /\ LET la == SortedList(a, w)
           lb == SortedList(b, w)
       IN  /\ Len(la) = Len(lb)
           /\ \A i \in 1..Len(la) :
                /\ la[i].nodeType = lb[i].nodeType
                /\ la[i].nodeType = TEXT_NODE =>
                     ~BothNonEmptyAndDifferent(TextValue(la[i].data, w),
                                               TextValue(lb[i].data, w))
                /\ la[i].nodeType = ELEMENT_NODE =>
                     EveryPairMatches(la[i], lb[i], w)

\* C1: equal returns true only if every positional pair of the two comparison
\* child lists matches, at any position and any depth; no pair after the
\* first one is skipped.
C1_EveryPairCompared ==
    (Done /\ result = TRUE) => EveryPairMatches(da, db, ignore_whitespace)

----------------------------------------------------------------------------
(* C2 *)

\* C2: sibling order is insignificant: two elements with the same tag and
\* the same attribute set whose child sequences are permutations of one
\* another are judged equal.
C2_SiblingOrderInsignificant ==
    (/\ Done
     /\ SameTagAndAttributes(da, db)
     /\ IsPermutationOf(da.childNodes, db.childNodes))
    => result = TRUE

----------------------------------------------------------------------------
(* C3 *)

Min(m, n) == IF m < n THEN m ELSE n

MayPrecede(m, n) ==
    IF m.nodeType = TEXT_NODE
    THEN n.nodeType = ELEMENT_NODE \/ cmp(m.data, n.data) <= 0
    ELSE n.nodeType = ELEMENT_NODE /\ cmp(m.tagName, n.tagName) <= 0

\* the comparison list of e is the remaining children of e, stably sorted
IsStablySortedChildren(e, w) ==
    LET doc == DocOrderList(e, w)
        srt == SortedList(e, w)
    IN  /\ IsPermutationOf(doc, srt)
        /\ \A i, j \in 1..Len(srt) : i < j => MayPrecede(srt[i], srt[j])
        /\ \A n \in Range(doc) :
             n.nodeType = ELEMENT_NODE =>
               SelectSeq(srt, LAMBDA m : m.nodeType = ELEMENT_NODE
                                          /\ m.tagName = n.tagName)
               = SelectSeq(doc, LAMBDA m : m.nodeType = ELEMENT_NODE
                                           /\ m.tagName = n.tagName)

BeginsWithText(l) == l # <<>> /\ l[1].nodeType = TEXT_NODE

----------------------------------------------------------------------------
(* C4 *)

\* b is a with whitespace-only text children inserted or deleted and with
\* leading and trailing whitespace added to or removed from its text nodes
RECURSIVE WhitespaceVariant(_, _)
WhitespaceVariant(a, b) ==
    /\ SameTagAndAttributes(a, b)
    /\ LET la == DocOrderList(a, TRUE)
           lb == DocOrderList(b, TRUE)
       IN  /\ Len(la) = Len(lb)
           /\ \A i \in 1..Len(la) :
                /\ la[i].nodeType = lb[i].nodeType
                /\ la[i].nodeType = TEXT_NODE =>
                     strip(la[i].data) = strip(lb[i].data)
                /\ la[i].nodeType = ELEMENT_NODE =>
                     WhitespaceVariant(la[i], lb[i])

\* C4: with ignoreWhitespace, two trees that differ only in whitespace-only
\* text children and in leading or trailing whitespace of text nodes are
\* judged equal, for any number of text siblings.
C4_WhitespaceInsignificant ==
    (Done /\ ignore_whitespace /\ WhitespaceVariant(da, db))
    => result = TRUE

----------------------------------------------------------------------------
(* C5 *)

Reverse(s) == [i \in 1..Len(s) |-> s[Len(s) + 1 - i]]

\* the same tree with the attributes of every element listed the other way
\* round
RECURSIVE Relisted(_)
Relisted(n) ==
    IF n.nodeType = TEXT_NODE THEN n
    ELSE [n EXCEPT !.attributes = Reverse(n.attributes),
                   !.childNodes = [i \in 1..Len(n.childNodes) |->
                                     Relisted(n.childNodes[i])]]

\* C5: attributes are compared as an unordered set of (key, value) pairs:
\* the verdict is false whenever the two sets differ, whatever the children,
\* and it does not depend on the order in which attributes are listed.
C5_AttributeSet ==
    Done =>
      /\ AttrSet(da) # AttrSet(db) => result = FALSE
      /\ result = element_is_equal(Relisted(da), db, ignore_whitespace).ret
      /\ result = element_is_equal(da, Relisted(db), ignore_whitespace).ret

\* two attributes listed in opposite orders, on the document element and on
\* its child, judged equal
C5_Witness ==
    /\ Done
    /\ Len(da.attributes) = 2
    /\ db.attributes = Reverse(da.attributes)
    /\ Len(da.childNodes) = 1
    /\ da.childNodes[1].nodeType = ELEMENT_NODE
    /\ Len(da.childNodes[1].attributes) = 2
    /\ db = Relisted(da)
    /\ result = TRUE

----------------------------------------------------------------------------
(* C6 *)

NumWhitespaceChildren(e) ==
    Cardinality({i \in 1..Len(e.childNodes) :
                   is_whitespace_node(e.childNodes[i])})

OnlyWhitespaceChildren(e) ==
    /\ e.childNodes # <<>>
    /\ \A i \in 1..Len(e.childNodes) : is_whitespace_node(e.childNodes[i])

\* C6: an element without children and one with the same tag and attributes
\* whose children are whitespace-only text are equal exactly when
\* ignoreWhitespace; without ignoreWhitespace, two document elements with
\* different numbers of whitespace-only text children are unequal.
C6_WhitespaceOnlyChildren ==
    Done =>
      /\ (/\ SameTagAndAttributes(da, db)
          /\ \/ da.childNodes = <<>> /\ OnlyWhitespaceChildren(db)
             \/ db.childNodes = <<>> /\ OnlyWhitespaceChildren(da))
         => result = ignore_whitespace
      /\ (/\ ~ignore_whitespace
          /\ NumWhitespaceChildren(da) # NumWhitespaceChildren(db))
         => result = FALSE

----------------------------------------------------------------------------
(* C7 *)

\* C7: symmetry: equal(A, B, w) = equal(B, A, w).
C7_Symmetry ==
    Done => result = element_is_equal(db, da, ignore_whitespace).ret

\* two different documents that are judged equal
C7_Witness ==
    /\ Done
    /\ da # db
    /\ Len(da.childNodes) >= 2
    /\ result = TRUE

----------------------------------------------------------------------------
(* C8 *)

\* C8: reflexivity: equal(A, A) is true for either ignoreWhitespace setting.
C8_Reflexivity ==
    (Done /\ da = db) => result = TRUE

\* a document with text and element children, one of them with children of
\* its own, compared with itself
C8_Witness ==
    /\ Done
    /\ da = db
    /\ \E i, j \in 1..Len(da.childNodes) :
         /\ da.childNodes[i].nodeType = TEXT_NODE
         /\ da.childNodes[j].nodeType = ELEMENT_NODE
         /\ Len(da.childNodes[j].childNodes) = 2
    /\ result = TRUE

----------------------------------------------------------------------------
(* C9 *)

\* C9: equal never mutates its inputs: the call leaves the children,
\* attributes and text data of every node of both trees as they were.
C9_InputsUnchanged == [][da' = da /\ db' = db]_vars

Identity(n) == [i \in 1..n |-> i]

\* a finished call that sorted and filtered the child lists of both document
\* elements and of a pair of child elements
C9_Witness ==
    /\ Done
    /\ ignore_whitespace
    /\ result = TRUE
    /\ comparison_list(sorted_nodes(da.childNodes), TRUE)
         # Identity(Len(da.childNodes))
    /\ sorted_nodes(db.childNodes).refs # Identity(Len(db.childNodes))
    /\ NumWhitespaceChildren(da) > 0
    /\ \E i \in 1..Len(da.childNodes) :
         /\ da.childNodes[i].nodeType = ELEMENT_NODE
         /\ Len(da.childNodes[i].childNodes) = 2
         /\ sorted_nodes(da.childNodes[i].childNodes).refs # Identity(2)

----------------------------------------------------------------------------
(* C10 *)

\* the raw data of the text children that remain in the comparison list
RemainingTexts(e, w) ==
    {n.data : n \in {m \in Range(DocOrderList(e, w)) :
                       m.nodeType = TEXT_NODE}}

SmallestText(e, w) ==
    CHOOSE d \in RemainingTexts(e, w) :
        \A o \in RemainingTexts(e, w) : cmp(d, o) <= 0

FirstTextPairCase ==
    /\ Done
    /\ SameTagAndAttributes(da, db)
    /\ Len(DocOrderList(da, ignore_whitespace))
         = Len(DocOrderList(db, ignore_whitespace))
    /\ RemainingTexts(da, ignore_whitespace) # {}
    /\ RemainingTexts(db, ignore_whitespace) # {}

====
